---- MODULE Spec2Model ----
(***************************************************************************)
(* Model of the usePaginatedTable hook (the Pagination/Fetch Coordinator). *)
(*                                                                         *)
(* One action is one turn of the UI event loop: a user handler, a fetch    *)
(* settling, the mount or the unmount, each followed by the re-render it   *)
(* causes and by the effects of that render (the change-detection effect   *)
(* and the synchronous part of fetchData up to its await).  State updates  *)
(* made in one turn are applied together before the render.                *)
(*                                                                         *)
(* Closures: every render creates fresh handlers over that render's state, *)
(* so a user handler reads the current state, while the continuation of    *)
(* fetchData after its await reads the pagination, tableOptions and        *)
(* abortToken of the render that issued it.  Each in-flight fetch therefore*)
(* carries those captured values.                                          *)
(*                                                                         *)
(* Arrays are JavaScript objects: [ref, val] with ref the object identity, *)
(* because the change-detection effect compares them with != .             *)
(*                                                                         *)
(* The fetch layer is the environment: it attaches the abort capability to *)
(* the token it receives, and a request whose token was aborted never      *)
(* resolves successfully (it may reject or stay pending).                  *)
(***************************************************************************)
EXTENDS Integers, Sequences, FiniteSets, TLC

\* ---- bounds ----
MaxFetches == 2          \* fetchData calls after which a user who does not wait stops
                         \* acting; a resolution may then add one more call
MaxPatientFetches == 3   \* fetchData calls after which a user who waits stops acting
MaxPage == 2             \* largest page a caller passes to changePage
MaxTotal == 2            \* largest totalEntries a result reports

\* ---- props (scaled-down values of the component's props) ----
dropdownPageLimits == <<1, 2>>
defaultOrder == <<"id asc">>
title == "Tracks"
columnsToFilter ==
  << [name |-> "all", value |-> <<"track", "artist">>],
     [name |-> "track", value |-> <<"track">>] >>

ColumnIndexes == 0 .. (Len(columnsToFilter) - 1)

\* identity of the array columnsToFilter[i].value, which the caller owns (the
\* arrays the hook creates have positive identities)
ColumnValueRef(i) == 0 - (i + 1)
OrderNames == {"id", "track"}
Directions == {"asc", "desc"}
Filters == {"", "foo"}
Pages == 1 .. MaxPage
PageLimits == {dropdownPageLimits[i] : i \in 1 .. Len(dropdownPageLimits)}

\* a URL query string: key -> list of values; an order value is kept as the
\* list of its comma-separated parts
EmptyURL == [search |-> <<>>, order |-> <<>>, columns |-> <<>>]

\* the routes the component is mounted at: /path and
\* /path/track?search=foo&order=track desc,id asc&columns=track
Routes ==
  { [column |-> "", url |-> EmptyURL],
    [column |-> "track",
     url |-> [search |-> <<"foo">>, order |-> << <<"track desc", "id asc">> >>,
              columns |-> <<"track">>]] }

VARIABLES
  onFetchData,     \* prop: TRUE iff a fetch callback was supplied
  onError,         \* prop: TRUE iff an error callback was supplied
  onDataFetched,   \* prop: TRUE iff a data-fetched callback was supplied
  phase,           \* "constructed" (first render done), "mounted", "unmounted"
  searchParams,    \* the URL query string
  tableData,       \* the rows shown: NoRows or the items of a result
  columnIndex,
  tableOptions,    \* [title, columns, filter, order]
  loading,
  abortToken,      \* identity of the object held in the abortToken state
  pagination,      \* [page, pageLimit, totalItems]
  prevProps,       \* what usePrev returned in the latest render
  fetches,         \* issued requests, in issue order, with captured closure
  hasAbort,        \* tokens the fetch layer attached an abort capability to
  aborted,         \* tokens whose abort capability was invoked
  errorLog,        \* reports made through the error channel, in order
  dataFetched,     \* ids of the requests whose result went to onDataFetched, in order
  fetchCalls,      \* number of fetchData invocations so far
  nextRef,         \* next fresh array identity
  cleanUpToken,    \* abortToken captured by the handleCleanUp of the first render
  lastOp,          \* the operation of the latest turn
  userWaits        \* environment: TRUE iff the user acts only when no fetch is in flight

vars == <<onFetchData, onError, onDataFetched, phase, searchParams, tableData,
          columnIndex, tableOptions, loading, abortToken, pagination, prevProps,
          fetches, hasAbort, aborted, errorLog, dataFetched, fetchCalls, nextRef,
          cleanUpToken, lastOp, userWaits>>

props == <<onFetchData, onError, onDataFetched, userWaits>>

\* ---- helpers ----
Floor(a, b) == a \div b

\* URLSearchParams.get: the first value of the key, or null
SearchParamsGet(url, key) ==
  IF Len(url[key]) = 0 THEN [null |-> TRUE] ELSE [null |-> FALSE, value |-> url[key][1]]

\* findTableColumnIndexByName: index of the column with that name, 0 otherwise
findTableColumnIndexByName(name, cols) ==
  IF \E i \in 1 .. Len(cols) : cols[i].name = name
  THEN (CHOOSE i \in 1 .. Len(cols) : cols[i].name = name) - 1
  ELSE 0

\* the initial value of the tableOptions state
InitialTableOptions(url, colIndex) ==
  [ title |-> title,
    columns |-> [ref |-> 1, val |-> columnsToFilter[colIndex + 1].value],
    filter |-> IF SearchParamsGet(url, "search").null THEN ""
               ELSE SearchParamsGet(url, "search").value,
    \* get('order')?.split(','): the parts of the first value of the key
    order |-> [ref |-> 2,
               val |-> IF SearchParamsGet(url, "order").null THEN defaultOrder
                       ELSE SearchParamsGet(url, "order").value] ]

\* usePagination: the initial pagination state
usePagination(pageLimit, totalItems) ==
  [page |-> 1, pageLimit |-> pageLimit, totalItems |-> totalItems]

\* usePrev's argument { ...tableOptions, ...pagination }
PropsOf(to, pg) ==
  [ title |-> to.title, columns |-> to.columns, filter |-> to.filter, order |-> to.order,
    page |-> pg.page, pageLimit |-> pg.pageLimit, totalItems |-> pg.totalItems ]

\* PropsChanged that also tracks totalItems
PropsChanged_WithTotal(prev, to, pg) ==
  \/ prev.columns.ref # to.columns.ref
  \/ prev.order.ref # to.order.ref
  \/ prev.filter # to.filter
  \/ prev.pageLimit # pg.pageLimit
  \/ prev.page # pg.page
  \/ prev.totalItems # pg.totalItems

\* PropsChanged with the lists compared by content
PropsChanged_ByValue(prev, to, pg) ==
  \/ prev.columns.val # to.columns.val
  \/ prev.order.val # to.order.val
  \/ prev.filter # to.filter
  \/ prev.pageLimit # pg.pageLimit
  \/ prev.page # pg.page

\* the condition of the change-detection effect: != is identity on arrays
PropsChanged(prev, to, pg) ==
  \/ prev.columns.ref # to.columns.ref
  \/ prev.order.ref # to.order.ref
  \/ prev.filter # to.filter
  \/ prev.pageLimit # pg.pageLimit
  \/ prev.page # pg.page

\* FetchRequest with the page used as the page index
FetchRequest_PageAsIndex(to, pg, tok) ==
  [ columns |-> to.columns.val,
    limit |-> pg.pageLimit,
    offset |-> pg.page * pg.pageLimit,
    order |-> to.order.val,
    filter |-> to.filter,
    abortToken |-> tok ]

\* the request object handed to onFetchData
FetchRequest(to, pg, tok) ==
  [ columns |-> to.columns.val,
    limit |-> pg.pageLimit,
    offset |-> (pg.page - 1) * pg.pageLimit,
    order |-> to.order.val,
    filter |-> to.filter,
    abortToken |-> tok ]

\* handleFetchError that ignores onError
handleFetchError_ConsoleOnly(log, error) ==
  Append(log, [channel |-> "console", error |-> error])

\* handleFetchError: onError if it is a function, console.error otherwise
handleFetchError(log, error) ==
  Append(log, [channel |-> IF onError THEN "onError" ELSE "console", error |-> error])

\* setSearchParams({search, order, columns}): an array value gives one entry
\* of the key per element
WriteSearchParams(to) ==
  [ search |-> <<to.filter>>,
    order |-> [i \in 1 .. Len(to.order.val) |-> <<to.order.val[i]>>],
    columns |-> to.columns.val ]

\* res?.totalEntries || 0
TotalEntriesOf(res) ==
  IF "totalEntries" \in DOMAIN res THEN res.totalEntries ELSE 0

\* the rows shown before any result arrived (tableData = null)
NoRows == [request |-> 0]

\* the rows the server returns for request i: the slice at the request's offset
Rows(i, req) == [request |-> i, offset |-> req.offset]

\* results the fetch callback can resolve request i with, totalEntries missing
\* or not
Results(i, req) ==
  {[items |-> Rows(i, req)]}
    \cup {[items |-> Rows(i, req), totalEntries |-> n] : n \in 0 .. MaxTotal}

\* ---- fetchData: the part that runs before the await ----
\* to, pg: state of the render whose effect calls it; fs, log: the fetches
\* and the error log as this turn has left them so far
fetchData(to, pg, fs, log) ==
  /\ fetchCalls' = fetchCalls + 1
  /\ aborted' = IF abortToken \in hasAbort THEN aborted \cup {abortToken} ELSE aborted
  /\ abortToken' = fetchCalls + 1
  /\ loading' = TRUE
  /\ IF ~onFetchData
     THEN /\ errorLog' = handleFetchError(log, "onFetchData is not a function")
          /\ fetches' = fs
          /\ hasAbort' = hasAbort
     ELSE /\ errorLog' = log
          /\ fetches' = Append(fs, [ req |-> FetchRequest(to, pg, abortToken),
                                     pagination |-> pg,
                                     tableOptions |-> to,
                                     status |-> "pending" ])
          /\ hasAbort' = hasAbort \cup {abortToken}

\* what usePrev returns in the render a turn causes: the props of the render
\* before it, which are those of the state the turn starts in
usePrev == PropsOf(tableOptions, pagination)

\* ---- a render with state (to, pg) followed by its effects ----
\* ld: the loading flag this turn has set so far.  A fetchData in the effect
\* sets state and so causes one more render, in which usePrev returns the
\* props of (to, pg)
RenderAndEffects(to, pg, ld, fs, log) ==
  /\ tableOptions' = to
  /\ pagination' = pg
  /\ IF PropsChanged(usePrev, to, pg)
     THEN /\ prevProps' = PropsOf(to, pg)
          /\ fetchData(to, pg, fs, log)
     ELSE /\ prevProps' = PropsOf(tableOptions, pagination)
          /\ loading' = ld
          /\ fetches' = fs
          /\ errorLog' = log
          /\ UNCHANGED <<fetchCalls, aborted, abortToken, hasAbort>>

Init ==
  /\ onFetchData \in BOOLEAN
  /\ onError \in BOOLEAN
  /\ onDataFetched \in BOOLEAN
  /\ phase = "constructed"
  /\ \E r \in Routes :
       /\ searchParams = r.url
       /\ columnIndex = findTableColumnIndexByName(r.column, columnsToFilter)
  /\ tableData = NoRows
  /\ tableOptions = InitialTableOptions(searchParams, columnIndex)
  /\ loading = FALSE
  /\ abortToken = 0
  /\ pagination = usePagination(dropdownPageLimits[1], 0)
  /\ prevProps = PropsOf(tableOptions, pagination)
  /\ fetches = <<>>
  /\ hasAbort = {}
  /\ aborted = {}
  /\ errorLog = <<>>
  /\ dataFetched = <<>>
  /\ fetchCalls = 0
  /\ nextRef = 3
  /\ cleanUpToken = abortToken
  /\ lastOp = <<"construct">>
  /\ userWaits \in BOOLEAN

\* ---- mount: the effects of the first render ----
\* the change-detection effect finds prevProps equal to the first render's
\* props; the mount effect calls fetchData unconditionally
Mount ==
  /\ phase = "constructed"
  /\ ~PropsChanged(prevProps, tableOptions, pagination)
  /\ phase' = "mounted"
  /\ fetchData(tableOptions, pagination, fetches, errorLog)
  /\ prevProps' = PropsOf(tableOptions, pagination)
  /\ lastOp' = <<"mount">>
  /\ UNCHANGED <<props, searchParams, tableData, columnIndex, tableOptions,
                 pagination, dataFetched, nextRef, cleanUpToken>>

InFlight == {i \in 1 .. Len(fetches) : fetches[i].status = "pending"}

\* a user operation can happen: the view is mounted (and the model's bounds)
CanAct ==
  /\ phase = "mounted"
  /\ IF userWaits THEN InFlight = {} /\ fetchCalls < MaxPatientFetches
     ELSE fetchCalls < MaxFetches

\* a settled request keeps its outcome and its token; its closure is gone
Settled(f, status) == [status |-> status, abortToken |-> f.req.abortToken]

\* the token that was handed to the callback with request f
TokenOf(f) == IF f.status = "pending" THEN f.req.abortToken ELSE f.abortToken

\* handlePageLimitChange that keeps the page
handlePageLimitChange_NoClamp(pageLimit) ==
  /\ CanAct
  /\ RenderAndEffects(tableOptions, [pagination EXCEPT !.pageLimit = pageLimit],
                      loading, fetches, errorLog)
  /\ lastOp' = <<"changePageSize", pageLimit>>
  /\ UNCHANGED <<props, phase, searchParams, tableData, columnIndex, dataFetched,
                 nextRef, cleanUpToken>>

handlePageLimitChange(pageLimit) ==
  /\ CanAct
  /\ LET newTotalPages == Floor(pagination.totalItems, pageLimit)
         newPage == IF pagination.page > newTotalPages THEN newTotalPages
                    ELSE pagination.page
     IN RenderAndEffects(tableOptions,
                         [pagination EXCEPT !.page = newPage, !.pageLimit = pageLimit],
                         loading, fetches, errorLog)
  /\ lastOp' = <<"changePageSize", pageLimit>>
  /\ UNCHANGED <<props, phase, searchParams, tableData, columnIndex, dataFetched,
                 nextRef, cleanUpToken>>

handlePageChange(page) ==
  /\ CanAct
  /\ RenderAndEffects(tableOptions, [pagination EXCEPT !.page = page],
                      loading, fetches, errorLog)
  /\ lastOp' = <<"changePage", page>>
  /\ UNCHANGED <<props, phase, searchParams, tableData, columnIndex, dataFetched,
                 nextRef, cleanUpToken>>

handleFilterChange(filter) ==
  /\ CanAct
  /\ RenderAndEffects([tableOptions EXCEPT !.filter = filter], pagination,
                      loading, fetches, errorLog)
  /\ lastOp' = <<"changeFilter", filter>>
  /\ UNCHANGED <<props, phase, searchParams, tableData, columnIndex, dataFetched,
                 nextRef, cleanUpToken>>

\* handleSearchColumnChange without setColumnIndex
handleSearchColumnChange_KeepsIndex(colIndex) ==
  /\ CanAct
  /\ columnIndex' = columnIndex
  /\ nextRef' = nextRef + 1
  /\ RenderAndEffects([tableOptions EXCEPT
                         !.columns = [ref |-> nextRef,
                                      val |-> columnsToFilter[colIndex + 1].value]],
                      pagination, loading, fetches, errorLog)
  /\ lastOp' = <<"changeSearchColumn", colIndex>>
  /\ UNCHANGED <<props, phase, searchParams, tableData, dataFetched, cleanUpToken>>

\* handleSearchColumnChange that installs the caller's array itself
handleSearchColumnChange_Alias(colIndex) ==
  /\ CanAct
  /\ columnIndex' = colIndex
  /\ nextRef' = nextRef + 1
  /\ RenderAndEffects([tableOptions EXCEPT
                         !.columns = [ref |-> ColumnValueRef(colIndex),
                                      val |-> columnsToFilter[colIndex + 1].value]],
                      pagination, loading, fetches, errorLog)
  /\ lastOp' = <<"changeSearchColumn", colIndex>>
  /\ UNCHANGED <<props, phase, searchParams, tableData, dataFetched, cleanUpToken>>

handleSearchColumnChange(colIndex) ==
  /\ CanAct
  /\ columnIndex' = colIndex
  /\ nextRef' = nextRef + 1
  /\ RenderAndEffects([tableOptions EXCEPT
                         !.columns = [ref |-> nextRef,
                                      val |-> columnsToFilter[colIndex + 1].value]],
                      pagination, loading, fetches, errorLog)
  /\ lastOp' = <<"changeSearchColumn", colIndex>>
  /\ UNCHANGED <<props, phase, searchParams, tableData, dataFetched, cleanUpToken>>

\* handleOrderChange that keeps the page
handleOrderChange_KeepsPage(name, direction) ==
  /\ CanAct
  /\ nextRef' = nextRef + 1
  /\ RenderAndEffects([tableOptions EXCEPT
                         !.order = [ref |-> nextRef,
                                    val |-> <<name \o " " \o direction>>]],
                      pagination, loading, fetches, errorLog)
  /\ lastOp' = <<"changeOrder", name, direction>>
  /\ UNCHANGED <<props, phase, searchParams, tableData, columnIndex, dataFetched,
                 cleanUpToken>>

handleOrderChange(name, direction) ==
  /\ CanAct
  /\ nextRef' = nextRef + 1
  /\ RenderAndEffects([tableOptions EXCEPT
                         !.order = [ref |-> nextRef,
                                    val |-> <<name \o " " \o direction>>]],
                      [pagination EXCEPT !.page = 1],
                      loading, fetches, errorLog)
  /\ lastOp' = <<"changeOrder", name, direction>>
  /\ UNCHANGED <<props, phase, searchParams, tableData, columnIndex, dataFetched,
                 cleanUpToken>>

\* ---- the fetch callback's promise fulfils: handleFetchSuccess(res, tableOptions),
\* then setLoading(false), with the closure of the render that issued request i
ResolveFetch(i, res) ==
  /\ phase \in {"mounted", "unmounted"}
  /\ i \in 1 .. Len(fetches)
  /\ fetches[i].status = "pending"
  /\ fetches[i].req.abortToken \notin aborted
  /\ searchParams' = WriteSearchParams(fetches[i].tableOptions)
  /\ dataFetched' = IF onDataFetched THEN Append(dataFetched, i) ELSE dataFetched
  /\ lastOp' = <<"resolve", i>>
  /\ LET fs == [fetches EXCEPT ![i] = Settled(fetches[i], "resolved")]
         pg == [fetches[i].pagination EXCEPT !.totalItems = TotalEntriesOf(res)]
     IN IF phase = "mounted"
        THEN /\ PropsChanged(usePrev, tableOptions, pg) => fetchCalls <= MaxFetches
             /\ tableData' = res.items
             /\ RenderAndEffects(tableOptions, pg, FALSE, fs, errorLog)
        ELSE \* state updates of an unmounted component are dropped by React
             /\ fetches' = fs
             /\ UNCHANGED <<tableData, tableOptions, pagination, prevProps, loading,
                            abortToken, aborted, hasAbort, errorLog, fetchCalls>>
  /\ UNCHANGED <<props, phase, columnIndex, nextRef, cleanUpToken>>

\* ---- the fetch callback's promise rejects: handleFetchError(error), then
\* setLoading(false)
RejectFetch(i) ==
  /\ phase \in {"mounted", "unmounted"}
  /\ i \in 1 .. Len(fetches)
  /\ fetches[i].status = "pending"
  /\ lastOp' = <<"reject", i>>
  /\ LET fs == [fetches EXCEPT ![i] = Settled(fetches[i], "rejected")]
         log == handleFetchError(errorLog, "rejected")
     IN IF phase = "mounted" /\ loading
        THEN RenderAndEffects(tableOptions, pagination, FALSE, fs, log)
        ELSE \* setLoading(false) changes nothing, or the view is gone
             /\ fetches' = fs
             /\ errorLog' = log
             /\ UNCHANGED <<tableOptions, pagination, prevProps, loading, abortToken,
                            aborted, hasAbort, fetchCalls>>
  /\ UNCHANGED <<props, phase, searchParams, tableData, columnIndex, dataFetched,
                 nextRef, cleanUpToken>>

\* ---- unmount: the clean-up returned by the unmount effect of the first
\* render, i.e. handleCleanUp over the first render's abortToken
handleCleanUp ==
  /\ phase = "mounted"
  /\ phase' = "unmounted"
  /\ aborted' = IF cleanUpToken \in hasAbort THEN aborted \cup {cleanUpToken} ELSE aborted
  /\ lastOp' = <<"unmount">>
  /\ UNCHANGED <<props, searchParams, tableData, columnIndex, tableOptions, loading,
                 abortToken, pagination, prevProps, fetches, hasAbort, errorLog,
                 dataFetched, fetchCalls, nextRef, cleanUpToken>>

Next ==
  \/ Mount
  \/ \E l \in PageLimits : handlePageLimitChange(l)
  \/ \E p \in Pages : handlePageChange(p)
  \/ \E f \in Filters : handleFilterChange(f)
  \/ \E c \in ColumnIndexes : handleSearchColumnChange(c)
  \/ \E n \in OrderNames, d \in Directions : handleOrderChange(n, d)
  \/ \E i \in InFlight : \E res \in Results(i, fetches[i].req) : ResolveFetch(i, res)
  \/ \E i \in InFlight : RejectFetch(i)
  \/ handleCleanUp

Spec == Init /\ [][Next]_vars

\* ---- the same hook without the record of what has settled ----
\* For behaviours that never end: a settled request leaves fetches (the later
\* ones move up), a token that neither the state nor a request in flight holds
\* any more is forgotten and its name is given to a new object, and fetchCalls
\* counts the calls of the mount and of user operations only.

\* fs without its i-th request
Remove(fs, i) ==
  [k \in 1 .. (Len(fs) - 1) |-> IF k < i THEN fs[k] ELSE fs[k + 1]]

\* the tokens still held: by the first render's clean-up or by a request of fs
LiveTokens(fs) ==
  {cleanUpToken} \cup {fs[k].req.abortToken : k \in 1 .. Len(fs)}

\* a name for the object setAbortToken({}) creates: one no held token has
FreshToken(fs) ==
  0 - (CHOOSE k \in 1 .. (Len(fs) + 3) :
         /\ (0 - k) \notin LiveTokens(fs) \cup {abortToken}
         /\ \A j \in 1 .. (k - 1) : (0 - j) \in LiveTokens(fs) \cup {abortToken})

\* fetchData called by the effect of a render that follows a settled request
fetchDataUncounted(to, pg, fs, log) ==
  LET issued == IF onFetchData
                THEN Append(fs, [ req |-> FetchRequest(to, pg, abortToken),
                                  pagination |-> pg,
                                  tableOptions |-> to,
                                  status |-> "pending" ])
                ELSE fs
  IN /\ fetchCalls' = fetchCalls
     /\ aborted' = (IF abortToken \in hasAbort THEN aborted \cup {abortToken}
                    ELSE aborted) \cap LiveTokens(issued)
     /\ abortToken' = FreshToken(fs)
     /\ loading' = TRUE
     /\ errorLog' = IF onFetchData THEN log
                    ELSE handleFetchError(log, "onFetchData is not a function")
     /\ fetches' = issued
     /\ hasAbort' = (IF onFetchData THEN hasAbort \cup {abortToken} ELSE hasAbort)
                      \cap LiveTokens(issued)

RenderAndEffectsUncounted(to, pg, ld, fs, log) ==
  /\ tableOptions' = to
  /\ pagination' = pg
  /\ IF PropsChanged(usePrev, to, pg)
     THEN /\ prevProps' = PropsOf(to, pg)
          /\ fetchDataUncounted(to, pg, fs, log)
     ELSE /\ prevProps' = PropsOf(tableOptions, pagination)
          /\ loading' = ld
          /\ fetches' = fs
          /\ errorLog' = log
          /\ hasAbort' = hasAbort \cap LiveTokens(fs)
          /\ aborted' = aborted \cap LiveTokens(fs)
          /\ UNCHANGED <<fetchCalls, abortToken>>

\* the props the PaginatedTable component passes: no onDataFetched
InitLive == Init /\ ~onDataFetched

ResolveFetchUncounted(i, res) ==
  /\ phase \in {"mounted", "unmounted"}
  /\ i \in 1 .. Len(fetches)
  /\ fetches[i].req.abortToken \notin aborted
  /\ searchParams' = WriteSearchParams(fetches[i].tableOptions)
  /\ lastOp' = <<"resolve", i>>
  /\ LET fs == Remove(fetches, i)
         pg == [fetches[i].pagination EXCEPT !.totalItems = TotalEntriesOf(res)]
     IN IF phase = "mounted"
        THEN /\ tableData' = res.items
             /\ RenderAndEffectsUncounted(tableOptions, pg, FALSE, fs, errorLog)
        ELSE /\ fetches' = fs
             /\ hasAbort' = hasAbort \cap LiveTokens(fs)
             /\ aborted' = aborted \cap LiveTokens(fs)
             /\ UNCHANGED <<tableData, tableOptions, pagination, prevProps, loading,
                            abortToken, errorLog, fetchCalls>>
  /\ UNCHANGED <<props, phase, columnIndex, nextRef, cleanUpToken, dataFetched>>

RejectFetchUncounted(i) ==
  /\ phase \in {"mounted", "unmounted"}
  /\ i \in 1 .. Len(fetches)
  /\ lastOp' = <<"reject", i>>
  /\ LET fs == Remove(fetches, i)
         log == handleFetchError(errorLog, "rejected")
     IN IF phase = "mounted" /\ loading
        THEN RenderAndEffectsUncounted(tableOptions, pagination, FALSE, fs, log)
        ELSE /\ fetches' = fs
             /\ errorLog' = log
             /\ hasAbort' = hasAbort \cap LiveTokens(fs)
             /\ aborted' = aborted \cap LiveTokens(fs)
             /\ UNCHANGED <<tableOptions, pagination, prevProps, loading, abortToken,
                            fetchCalls>>
  /\ UNCHANGED <<props, phase, searchParams, tableData, columnIndex, dataFetched,
                 nextRef, cleanUpToken>>

\* the request issued first among those in flight settles
SettleOldest ==
  \/ \E res \in Results(1, fetches[1].req) : ResolveFetchUncounted(1, res)
  \/ RejectFetchUncounted(1)

NextLive ==
  \/ Mount
  \/ \E l \in PageLimits : handlePageLimitChange(l)
  \/ \E p \in Pages : handlePageChange(p)
  \/ \E f \in Filters : handleFilterChange(f)
  \/ \E c \in ColumnIndexes : handleSearchColumnChange(c)
  \/ \E n \in OrderNames, d \in Directions : handleOrderChange(n, d)
  \/ \E i \in InFlight : \E res \in Results(i, fetches[i].req) : ResolveFetchUncounted(i, res)
  \/ \E i \in InFlight : RejectFetchUncounted(i)
  \/ handleCleanUp

\* every callback invocation settles: the fetch layer answers in the order of
\* the requests, and the oldest request in flight is eventually answered
SpecLive == InitLive /\ [][NextLive]_vars /\ WF_vars(fetches # <<>> /\ SettleOldest)

\* ---- properties ----

Last(seq) == seq[Len(seq)]

Max(a, b) == IF a > b THEN a ELSE b

\* request a is in flight before the step and resolved by it
Resolves(a) ==
  /\ a \in 1 .. Len(fetches)
  /\ fetches[a].status = "pending"
  /\ fetches'[a].status = "resolved"

\* request a is in flight before the step and rejected by it
Rejects(a) ==
  /\ a \in 1 .. Len(fetches)
  /\ fetches[a].status = "pending"
  /\ fetches'[a].status = "rejected"

\* C1: a result of a request that is not the latest issued is never applied:
\* when request a resolves after a later request was issued, the rows, the
\* total and the URL stay as they were.
C1_StaleResultNeverApplied ==
  [][\A a \in 1 .. Len(fetches) :
       (Resolves(a) /\ a < Len(fetches))
         => /\ tableData'.request # a
            /\ pagination'.totalItems = pagination.totalItems
            /\ searchParams' = searchParams]_vars

\* C2: at most one in-flight request has a token whose abort capability was
\* not invoked.
C2_AtMostOneLiveFetch ==
  Cardinality({i \in InFlight : fetches[i].req.abortToken \notin aborted}) <= 1

\* C3: the unmount invokes the abort capability of the token of every request
\* in flight, and after the unmount no settling request changes the rows, the
\* pagination, the loading flag or the URL.
C3_UnmountCancelsAndFreezes ==
  [][/\ (phase = "mounted" /\ phase' = "unmounted")
          => \A i \in InFlight : fetches[i].req.abortToken \in aborted'
     /\ phase = "unmounted"
          => /\ tableData' = tableData
             /\ pagination' = pagination
             /\ loading' = loading
             /\ searchParams' = searchParams]_vars

\* C4: without a fetch callback every fetch attempt reports a configuration
\* error, issues no request and ends with loading = false.
C4_NoCallbackEndsIdle ==
  (~onFetchData /\ phase # "constructed")
    => /\ fetches = <<>>
       /\ Len(errorLog) = fetchCalls
       /\ \A k \in 1 .. Len(errorLog) : errorLog[k].error = "onFetchData is not a function"
       /\ loading = FALSE

\* C5: a rejection is reported exactly once, on onError if supplied and on the
\* console otherwise; onDataFetched is not called; rows, pagination, table
\* options, selected column and URL stay; no fetch is issued; loading of a
\* mounted view becomes false.
C5_RejectionKeepsLastGood ==
  [][\A a \in 1 .. Len(fetches) :
       Rejects(a)
         => /\ errorLog' = Append(errorLog,
                                  [channel |-> IF onError THEN "onError" ELSE "console",
                                   error |-> "rejected"])
            /\ dataFetched' = dataFetched
            /\ tableData' = tableData
            /\ pagination' = pagination
            /\ tableOptions' = tableOptions
            /\ columnIndex' = columnIndex
            /\ searchParams' = searchParams
            /\ fetchCalls' = fetchCalls
            /\ phase = "mounted" => loading' = FALSE]_vars

\* C5 witness: a request was rejected while rows of an earlier one are shown on
\* page 2
C5_Witness ==
  /\ lastOp[1] = "reject"
  /\ tableData # NoRows
  /\ pagination.page = 2
  /\ loading = FALSE
  /\ Len(errorLog) = 1

\* C6: page >= 1, pageLimit > 0 and totalItems >= 0 in every reachable state.
C6_PaginationRanges ==
  /\ pagination.page >= 1
  /\ pagination.pageLimit > 0
  /\ pagination.totalItems >= 0

\* C7: changePageSize(L) on totalItems T leaves pageLimit = L and
\* page <= max(1, floor(T/L)), and keeps a page that was <= floor(T/L).
C7_PageSizeClamp ==
  [][lastOp'[1] = "changePageSize"
       => LET L == lastOp'[2]
              T == pagination.totalItems
          IN /\ pagination'.pageLimit = L
             /\ pagination'.totalItems = T
             /\ pagination'.page <= Max(1, T \div L)
             /\ pagination.page <= T \div L => pagination'.page = pagination.page]_vars

\* C7 witness: changePageSize(2) has clamped to 1 the page of a table of 2
\* items that showed its second page of size 1
C7_Witness ==
  /\ lastOp = <<"changePageSize", 2>>
  /\ userWaits
  /\ fetchCalls = 3
  /\ tableData = [request |-> 2, offset |-> 1]
  /\ pagination = [page |-> 1, pageLimit |-> 2, totalItems |-> 2]

\* C8: changeOrder(name, dir) leaves page = 1 and order = ["<name> <dir>"], and
\* the request it issues carries that order and offset 0.
C8_OrderChangeResets ==
  [][lastOp'[1] = "changeOrder"
       => LET o == <<lastOp'[2] \o " " \o lastOp'[3]>>
          IN /\ pagination'.page = 1
             /\ tableOptions'.order.val = o
             /\ fetchCalls' = fetchCalls + 1
             /\ onFetchData
                  => /\ Len(fetches') = Len(fetches) + 1
                     /\ Last(fetches').status = "pending"
                     /\ Last(fetches').req.order = o
                     /\ Last(fetches').req.offset = 0]_vars

\* C8 witness: changeOrder(id, desc) has replaced the two-field order the URL
\* still shows, and its request is in flight
C8_Witness ==
  /\ lastOp = <<"changeOrder", "id", "desc">>
  /\ searchParams.order = << <<"track desc">>, <<"id asc">> >>
  /\ tableOptions.order.val = <<"id desc">>
  /\ pagination.page = 1
  /\ Len(fetches) = 3
  /\ fetches[3].status = "pending"
  /\ fetches[3].req.order = <<"id desc">>

\* C9: a request handed to the callback has limit = pageLimit,
\* offset = (page - 1) * pageLimit and the columns, order and filter of the
\* state it is issued in.
C9_RequestMatchesState ==
  [][Len(fetches') > Len(fetches)
       => /\ Len(fetches') = Len(fetches) + 1
          /\ Last(fetches').req.limit = pagination'.pageLimit
          /\ Last(fetches').req.offset = (pagination'.page - 1) * pagination'.pageLimit
          /\ Last(fetches').req.columns = tableOptions'.columns.val
          /\ Last(fetches').req.order = tableOptions'.order.val
          /\ Last(fetches').req.filter = tableOptions'.filter]_vars

\* C9 witness: the request of changePage(2) with page size 2 is in flight
C9_Witness ==
  /\ lastOp = <<"changePage", 2>>
  /\ pagination.pageLimit = 2
  /\ fetches # <<>>
  /\ Last(fetches).status = "pending"
  /\ Last(fetches).req.offset = 2
  /\ Last(fetches).req.limit = 2

\* the five fields of the change detection, by value
TrackedValues ==
  <<tableOptions.columns.val, tableOptions.order.val, tableOptions.filter,
    pagination.pageLimit, pagination.page>>

\* C10 as stated: after mount fetchData runs in a turn exactly when one of
\* columns, order, filter, pageLimit, page differs by value from before.
C10_FetchIffValueDiffers ==
  [][phase = "mounted"
       => /\ fetchCalls' \in {fetchCalls, fetchCalls + 1}
          /\ fetchCalls' = fetchCalls + 1 <=> TrackedValues' # TrackedValues]_vars

\* C10 amended: after mount fetchData runs in a turn exactly when filter,
\* pageLimit or page differs by value from before or the turn is a changeOrder
\* or a changeSearchColumn (each installs a new list, also one of equal
\* content); the request issued carries the new values.
C10_FetchIffChanged ==
  [][phase = "mounted"
       => /\ fetchCalls' \in {fetchCalls, fetchCalls + 1}
          /\ fetchCalls' = fetchCalls + 1
               <=> \/ lastOp'[1] \in {"changeOrder", "changeSearchColumn"}
                   \/ tableOptions'.filter # tableOptions.filter
                   \/ pagination'.pageLimit # pagination.pageLimit
                   \/ pagination'.page # pagination.page
          /\ (fetchCalls' = fetchCalls + 1 /\ onFetchData)
               => /\ Len(fetches') = Len(fetches) + 1
                  /\ Last(fetches').req.columns = tableOptions'.columns.val
                  /\ Last(fetches').req.order = tableOptions'.order.val
                  /\ Last(fetches').req.filter = tableOptions'.filter
                  /\ Last(fetches').req.limit = pagination'.pageLimit
                  /\ Last(fetches').req.offset =
                       (pagination'.page - 1) * pagination'.pageLimit
          /\ (fetchCalls' = fetchCalls + 1 /\ ~onFetchData)
               => Len(fetches') = Len(fetches)]_vars

\* C10 witness: changeOrder(id, asc) on the order id asc, which the first
\* request carried to the URL, has issued a second request
C10_Witness ==
  /\ lastOp = <<"changeOrder", "id", "asc">>
  /\ fetchCalls = 2
  /\ Len(fetches) = 2
  /\ fetches[1].status = "resolved"
  /\ searchParams.order = << <<"id asc">> >>
  /\ fetches[2].status = "pending"
  /\ fetches[2].req.order = <<"id asc">>

\* C11: the mount issues exactly one fetchData call; with a fetch callback its
\* request has limit = the first dropdown page limit, offset 0, filter = the
\* URL's search value or "" and order = the URL's order or defaultOrder; and
\* the successful resolution of that request, no other request having been
\* issued, issues no further one.
C11_MountFetchesOnce ==
  [][/\ lastOp'[1] = "mount"
          => /\ fetchCalls' = 1
             /\ onFetchData
                  => /\ Len(fetches') = 1
                     /\ fetches'[1].status = "pending"
                     /\ fetches'[1].req.limit = dropdownPageLimits[1]
                     /\ fetches'[1].req.offset = 0
                     /\ fetches'[1].req.filter =
                          (IF searchParams.search = <<>> THEN ""
                           ELSE searchParams.search[1])
                     /\ fetches'[1].req.order =
                          (IF searchParams.order = <<>> THEN defaultOrder
                           ELSE searchParams.order[1])
     /\ (Resolves(1) /\ Len(fetches) = 1)
          => /\ fetchCalls' = 1
             /\ Len(fetches') = 1]_vars

\* C11 witness: the only request, issued by the mount at the route with a query
\* string, has resolved with 2 entries and nothing else was fetched
C11_Witness ==
  /\ lastOp = <<"resolve", 1>>
  /\ phase = "mounted"
  /\ fetchCalls = 1
  /\ Len(fetches) = 1
  /\ tableData = [request |-> 1, offset |-> 0]
  /\ tableOptions.filter = "foo"
  /\ pagination = [page |-> 1, pageLimit |-> 1, totalItems |-> 2]

\* C12: a successful resolution on a mounted view shows the rows of its
\* result, sets totalItems to a reported total, and leaves page, pageLimit,
\* filter, order, columns and the selected column index as they were just
\* before it, also when the user changed page or pageLimit meanwhile.
C12_ResolutionKeepsUserState ==
  [][\A a \in 1 .. Len(fetches) :
       (Resolves(a) /\ phase = "mounted")
         => /\ tableData'.request = a
            /\ pagination'.totalItems \in 0 .. MaxTotal
            /\ pagination'.page = pagination.page
            /\ pagination'.pageLimit = pagination.pageLimit
            /\ tableOptions' = tableOptions
            /\ columnIndex' = columnIndex]_vars

\* C13: right after every successful resolution the URL's search, order and
\* columns are those of the current filter, order and columns.
C13_UrlMatchesCurrentOptions ==
  [][\A a \in 1 .. Len(fetches) :
       Resolves(a) => searchParams' = WriteSearchParams(tableOptions')]_vars

C15_SearchColumnChange ==
  [][/\ lastOp'[1] = "changeSearchColumn"
          => LET i == lastOp'[2]
             IN /\ columnIndex' = i
                /\ tableOptions'.columns.val = columnsToFilter[i + 1].value
                /\ tableOptions'.columns.ref # tableOptions.columns.ref
                /\ tableOptions'.title = tableOptions.title
                /\ tableOptions'.filter = tableOptions.filter
                /\ tableOptions'.order = tableOptions.order
                /\ pagination' = pagination
     /\ tableOptions'.columns.ref \notin {ColumnValueRef(c) : c \in ColumnIndexes}]_vars

\* C15 witness: changeSearchColumn(1) at /path, where index 0 was selected, on
\* page 2 of 2 entries
C15_Witness ==
  /\ lastOp = <<"changeSearchColumn", 1>>
  /\ columnIndex = 1
  /\ tableOptions.columns.val = <<"track">>
  /\ tableOptions.order.val = defaultOrder
  /\ pagination = [page |-> 2, pageLimit |-> 1, totalItems |-> 2]
  /\ searchParams.columns = <<"track", "artist">>

\* C16: once a request was issued, the token held in the abortToken state is
\* the token handed to the callback with the latest request, and was handed
\* with no earlier request.
C16_HeldTokenIsPassedToken ==
  fetches # <<>>
    => /\ abortToken = TokenOf(Last(fetches))
       /\ \A j \in 1 .. (Len(fetches) - 1) : TokenOf(fetches[j]) # abortToken

\* C17: the URL a successful resolution writes from filter F and order O gives
\* back filter = F and order = O as the initial table options of a mount at
\* that URL.
C17_UrlRoundTrip ==
  [][\A a \in 1 .. Len(fetches) :
       Resolves(a)
         => LET written == fetches[a].tableOptions
                again == InitialTableOptions(searchParams', columnIndex)
            IN /\ again.filter = written.filter
               /\ again.order.val = written.order.val]_vars

\* C19: on a mounted view with a fetch callback, loading is true whenever an
\* issued request has not settled.
C19_LoadingWhileInFlight ==
  (onFetchData /\ phase = "mounted" /\ InFlight # {}) => loading = TRUE

\* C20: in every reachable state the active search columns have the content
\* of columnsToFilter at the selected column index.
C20_ColumnsFollowIndex ==
  tableOptions.columns.val = columnsToFilter[columnIndex + 1].value

\* C20 witness: at /path index 1 was selected while request 1 was in flight,
\* and request 1 has then resolved and written its own columns to the URL
C20_Witness ==
  /\ lastOp = <<"resolve", 1>>
  /\ phase = "mounted"
  /\ columnIndex = 1
  /\ tableOptions.columns.val = <<"track">>
  /\ searchParams.columns = <<"track", "artist">>
  /\ Len(fetches) = 2

UserOps == {"changePageSize", "changePage", "changeFilter", "changeSearchColumn",
            "changeOrder"}

\* C18: once the user operations have stopped, if every request in flight
\* is eventually answered, then eventually no request is in flight any more.
C18_Quiescence ==
  <>[](lastOp[1] \notin UserOps) => <>[](InFlight = {})

====
